---------------------------- MODULE Spec2Model ----------------------------
(***************************************************************************)
(* Calibrator session of src/app.js: the global `state` object, the pure   *)
(* helpers deriveTextSignals / deriveMetrics / interpret and the four      *)
(* handlers updateSignal, updateRawInput, submitCalibration and resetAll.  *)
(* The second half of the file is the counter and notes application:       *)
(* CounterModel, NotesModel, Store, AppUI, AppController and bootstrap.    *)
(*                                                                         *)
(* Representation.                                                         *)
(*  - A JavaScript string is a sequence of one-character strings.          *)
(*  - A JavaScript array is a sequence; the code's 0-based index i is      *)
(*    position i + 1 here.                                                 *)
(*  - A number handed to updateSignal is a record [kind, n]; kind is       *)
(*    "finite", "NaN", "Infinity" or "-Infinity" and n the integer value   *)
(*    of a finite one.  The draft holds the n of the numbers it accepted.  *)
(*  - metrics.mean, a decimal with two places, is kept in hundredths       *)
(*    (10.71 is 1071).                                                     *)
(*  - A JavaScript value of unknown type (a note text, an index, what      *)
(*    JSON.parse returned) is a record tagged with t: "undefined", "null", *)
(*    "boolean", "NaN", "number", "string", "array" or "object".           *)
(*  - An entry of localStorage is a record tagged with kind: "missing",    *)
(*    "denied" (getItem throws) or "text", the latter with the outcome of  *)
(*    JSON.parse on the stored text.                                       *)
(***************************************************************************)
EXTENDS Integers, Sequences, FiniteSets, TLC

VARIABLES
    status,        \* state.status
    signalsDraft,  \* state.signalsDraft
    rawInput,      \* state.rawInput
    runs,          \* state.runs, newest first
    error,         \* state.error
    pc,            \* position of the handler being run: "ready" between events,
                   \* "running" inside submitCalibration after its first render
    submitCount,   \* history: runs created since the last resetAll (or boot)
    call,          \* history: the handler invoked last and its arguments
    arg,           \* the argument of a call of a pure helper made on its own
    ret,           \* what that call returned; <<>> before it has returned
    counterValue,  \* CounterModel #value
    notes,         \* NotesModel #notes
    storage,       \* localStorage: the entries of the two keys
    countText,     \* #count textContent
    noteList,      \* the texts of the items of #noteList
    statusText,    \* #status textContent
    thrown,        \* the exception that left the handler run last, or null
    failures       \* history: the number of writes localStorage has refused

\* the calibrator session
sessionVars == <<status, signalsDraft, rawInput, runs, error, pc, submitCount>>

\* a pure helper called on its own
helperVars == <<arg, ret>>

\* the counter and notes application
appVars == <<counterValue, notes, storage, countText, noteList, statusText,
             thrown, failures>>

vars == <<sessionVars, call, helperVars, appVars>>

-----------------------------------------------------------------------------
(* Bounds and program constants *)

\* runs per session (from boot or resetAll) explored with the wide inputs
MaxSubmits == 2

\* runs per session explored with the narrow inputs
MaxLogSubmits == 7

\* state.runs.slice(0, 5)
RunLogCap == 5

null == "null"

RequiredMessage == "Raw Input is required to run calibration."

DefaultSignals == <<10, 20, 30>>

-----------------------------------------------------------------------------
(* Numbers *)

Num(n) == [kind |-> "finite", n |-> n]

NonFinite == { [kind |-> k, n |-> 0] : k \in {"NaN", "Infinity", "-Infinity"} }

\* Number.isFinite(value)
NumberIsFinite(value) == value.kind = "finite"

Min2(a, b) == IF a <= b THEN a ELSE b

Max2(a, b) == IF a >= b THEN a ELSE b

Abs(x) == IF x < 0 THEN -x ELSE x

-----------------------------------------------------------------------------
(* Strings *)

WhiteSpace == {" ", "\t", "\n"}

Terminators == {".", "!", "?"}

UpperCase == <<"A","B","C","D","E","F","G","H","I","J","K","L","M",
               "N","O","P","Q","R","S","T","U","V","W","X","Y","Z">>

LowerCase == <<"a","b","c","d","e","f","g","h","i","j","k","l","m",
               "n","o","p","q","r","s","t","u","v","w","x","y","z">>

\* String.prototype.toLowerCase, one character
LowerChar(c) ==
    IF \E k \in 1..26 : UpperCase[k] = c
    THEN LowerCase[CHOOSE k \in 1..26 : UpperCase[k] = c]
    ELSE c

\* String.prototype.toLowerCase
ToLowerCase(s) == [k \in 1..Len(s) |-> LowerChar(s[k])]

\* String.prototype.trim
RECURSIVE TrimStart(_)
TrimStart(s) ==
    IF s # <<>> /\ Head(s) \in WhiteSpace THEN TrimStart(Tail(s)) ELSE s

RECURSIVE TrimEnd(_)
TrimEnd(s) ==
    IF s # <<>> /\ s[Len(s)] \in WhiteSpace
    THEN TrimEnd(SubSeq(s, 1, Len(s) - 1))
    ELSE s

Trim(s) == TrimEnd(TrimStart(s))

\* s.split(/[seps]+/): the pieces of s between maximal runs of separator
\* characters.  A run at the start or the end of s leaves an empty piece
\* there, as in JavaScript; `cur` is the piece being collected.
RECURSIVE SplitRuns(_, _, _, _)
SplitRuns(s, seps, cur, inRun) ==
    IF s = <<>> THEN <<cur>>
    ELSE IF Head(s) \in seps
         THEN IF inRun
              THEN SplitRuns(Tail(s), seps, cur, TRUE)
              ELSE <<cur>> \o SplitRuns(Tail(s), seps, <<>>, TRUE)
         ELSE SplitRuns(Tail(s), seps, Append(cur, Head(s)), FALSE)

Split(s, seps) == SplitRuns(s, seps, <<>>, FALSE)

\* pieces.filter(Boolean): the non-empty strings
FilterNonEmpty(pieces) == SelectSeq(pieces, LAMBDA p : p # <<>>)


-----------------------------------------------------------------------------
(* Pure helpers *)

positive == { <<"g","o","o","d">>, <<"c","l","e","a","r">>,
              <<"s","u","c","c","e","s","s">>,
              <<"p","o","s","i","t","i","v","e">>, <<"r","e","a","d","y">> }

negative == { <<"b","a","d">>, <<"c","o","n","f","u","s","e","d">>,
              <<"f","a","i","l">>, <<"e","r","r","o","r">>,
              <<"b","l","o","c","k","e","d">> }

\* text.split(/\s+/).filter(Boolean)
Words(text) == FilterNonEmpty(Split(text, WhiteSpace))

\* text.split(/[.!?]+/).map(s => s.trim()).filter(Boolean)
Sentences(text) ==
    LET pieces == Split(text, Terminators)
    IN  FilterNonEmpty([k \in 1..Len(pieces) |-> Trim(pieces[k])])

\* the words.forEach loop: +1 for a positive word, -1 for a negative one
RECURSIVE Sentiment(_)
Sentiment(words) ==
    IF words = <<>> THEN 0
    ELSE LET lw == ToLowerCase(Head(words))
         IN  (IF lw \in positive THEN 1 ELSE 0)
             - (IF lw \in negative THEN 1 ELSE 0)
             + Sentiment(Tail(words))

\* [text.length, words.length, sentences.length, sentiment]
deriveTextSignals(text) ==
    << Len(text), Len(Words(text)), Len(Sentences(text)), Sentiment(Words(text)) >>

RECURSIVE SeqMin(_, _)
SeqMin(s, acc) == IF s = <<>> THEN acc ELSE SeqMin(Tail(s), Min2(acc, Head(s)))

RECURSIVE SeqMax(_, _)
SeqMax(s, acc) == IF s = <<>> THEN acc ELSE SeqMax(Tail(s), Max2(acc, Head(s)))

RECURSIVE SeqSum(_)
SeqSum(s) == IF s = <<>> THEN 0 ELSE Head(s) + SeqSum(Tail(s))

\* Number((sum / n).toFixed(2)), in hundredths.  toFixed takes the integer h
\* with h / 100 nearest to the quotient and writes the sign of a negative
\* quotient in front of the rounded magnitude.  Where the exact quotient lies
\* halfway between two hundredths the larger magnitude is taken; that case
\* needs 200 * sum = n * (odd number) and cannot arise for the 7 signals of
\* a run (7 would divide sum, making the quotient an integer).
ToFixed2(sum, n) ==
    LET h == (2 * 100 * Abs(sum) + n) \div (2 * n)
    IN  IF sum < 0 THEN -h ELSE h

\* deriveMetrics(signals), for a non-empty array
deriveMetrics(signals) ==
    [ min   |-> SeqMin(signals, signals[1]),
      max   |-> SeqMax(signals, signals[1]),
      mean  |-> ToFixed2(SeqSum(signals), Len(signals)),
      count |-> Len(signals) ]

\* what (sum / n).toFixed(2) can yield, in hundredths, when sum / n is only
\* known as the fraction sum / n: the nearest hundredth, and where the
\* fraction lies exactly halfway between two hundredths either of them,
\* because the double that stands for it lies on either side (0.005 is
\* printed as "0.01" and 1.005 as "1.00")
ToFixed2Ties(sum, n) ==
    LET lo   == (100 * Abs(sum)) \div n
        rem2 == 2 * ((100 * Abs(sum)) % n)
        mags == IF rem2 < n THEN {lo}
                ELSE IF rem2 > n THEN {lo + 1} ELSE {lo, lo + 1}
    IN  {IF sum < 0 THEN -h ELSE h : h \in mags}

\* the fixed-point unit of the fractional signals handed to deriveMetrics on
\* its own: a signal v stands for the number v / SignalUnit
SignalUnit == 1000

\* deriveMetrics with the division by signals.length left out
deriveMetricsUndivided(signals, unit) ==
    { [ min   |-> SeqMin(signals, signals[1]),
        max   |-> SeqMax(signals, signals[1]),
        mean  |-> h,
        count |-> Len(signals) ] : h \in ToFixed2Ties(SeqSum(signals), unit) }

\* the results deriveMetrics(signals) can have for a non-empty array of
\* numbers given in 1/unit: min and max stay in 1/unit, mean is in hundredths
deriveMetricsScaled(signals, unit) ==
    { [ min   |-> SeqMin(signals, signals[1]),
        max   |-> SeqMax(signals, signals[1]),
        mean  |-> h,
        count |-> Len(signals) ] :
      h \in ToFixed2Ties(SeqSum(signals), unit * Len(signals)) }

\* textSignals[k] ?? dflt: a 0 that is present is kept
OrDefaultNullish(textSignals, k, dflt) ==
    IF k + 1 \in DOMAIN textSignals THEN textSignals[k + 1] ELSE dflt

\* textSignals[k] || dflt, for the 0-based index k
OrDefault(textSignals, k, dflt) ==
    IF k + 1 \in DOMAIN textSignals /\ textSignals[k + 1] # 0
    THEN textSignals[k + 1]
    ELSE dflt

\* the null handed to interpret in place of a metrics object (a record, so
\* that it compares with metrics records)
nullMetrics == [isNull |-> TRUE]

\* interpret with >= in place of > in the pressure thresholds
interpretInclusive(metrics, textSignals) ==
    IF metrics = nullMetrics
    THEN [pressure |-> "Low", load |-> "Low", clarity |-> "Low",
          readiness |-> "Not Ready"]
    ELSE
      LET textLength    == OrDefault(textSignals, 0, 0)
          sentenceCount == OrDefault(textSignals, 2, 1)
          pressure == IF metrics.mean + 100 * textLength >= 100 * 200 THEN "High"
                      ELSE IF metrics.mean + 100 * textLength >= 100 * 80
                           THEN "Medium" ELSE "Low"
          load     == IF metrics.count + sentenceCount > 15 THEN "High"
                      ELSE IF metrics.count + sentenceCount > 8
                           THEN "Medium" ELSE "Low"
          clarity  == IF sentenceCount > 6 THEN "Low"
                      ELSE IF sentenceCount > 3 THEN "Medium" ELSE "High"
          readiness == IF pressure # "High" /\ clarity = "High"
                       THEN "Ready" ELSE "Not Ready"
      IN  [pressure |-> pressure, load |-> load, clarity |-> clarity,
           readiness |-> readiness]

\* interpret(metrics, textSignals); metrics is null or a metrics record whose
\* mean is in hundredths, so the thresholds 200 and 80 are compared scaled
interpret(metrics, textSignals) ==
    IF metrics = nullMetrics
    THEN [pressure |-> "Low", load |-> "Low", clarity |-> "Low",
          readiness |-> "Not Ready"]
    ELSE
      LET textLength    == OrDefault(textSignals, 0, 0)
          sentenceCount == OrDefault(textSignals, 2, 1)
          pressure == IF metrics.mean + 100 * textLength > 100 * 200 THEN "High"
                      ELSE IF metrics.mean + 100 * textLength > 100 * 80
                           THEN "Medium" ELSE "Low"
          load     == IF metrics.count + sentenceCount > 15 THEN "High"
                      ELSE IF metrics.count + sentenceCount > 8
                           THEN "Medium" ELSE "Low"
          clarity  == IF sentenceCount > 6 THEN "Low"
                      ELSE IF sentenceCount > 3 THEN "Medium" ELSE "High"
          readiness == IF pressure # "High" /\ clarity = "High"
                       THEN "Ready" ELSE "Not Ready"
      IN  [pressure |-> pressure, load |-> load, clarity |-> clarity,
           readiness |-> readiness]

\* render() reading the last element of state.runs instead of the first
InterpretationOfOldest ==
    IF runs # <<>> THEN interpret(runs[Len(runs)].metrics, runs[Len(runs)].derived)
    ELSE interpret(nullMetrics, <<>>)

\* what render() shows as interpretation: that of the newest run, if any
Interpretation ==
    IF runs # <<>> THEN interpret(runs[1].metrics, runs[1].derived)
    ELSE interpret(nullMetrics, <<>>)

-----------------------------------------------------------------------------
(* Inputs *)

\* raw texts typed into the textarea: "", " \n", "Hello world." and "OK? bad"
EmptyText == <<>>

SpacesText == <<" ", "\n">>

HelloText == <<"H","e","l","l","o"," ","w","o","r","l","d",".">>

BadText == <<"O","K","?"," ","b","a","d">>

Texts == {EmptyText, SpacesText, HelloText, BadText}

LogTexts == {EmptyText, HelloText, BadText}

\* numbers typed into a signal row: Number(e.target.value)
Values == {Num(-4)} \cup NonFinite

LogValues == {Num(250), [kind |-> "NaN", n |-> 0]}

\* data-i of the rendered rows: the indices of the draft
Indices == 0 .. (Len(signalsDraft) - 1)

LogIndices == {0}

\* readings of Date.now(): the clock does not run backwards between two runs
Timestamps == {1, 2}

DateNow == { t \in Timestamps : runs = <<>> \/ t >= runs[1].timestamp }

-----------------------------------------------------------------------------
(* Global state *)

\* the state object of lines 92-98 as the script creates it
SessionInit ==
    /\ status = "idle"
    /\ signalsDraft = DefaultSignals
    /\ rawInput = <<>>
    /\ runs = <<>>
    /\ error = null
    /\ pc = "ready"
    /\ submitCount = 0

\* no helper is called on its own
NoHelperCall == arg = <<>> /\ ret = <<>>

\* the counter and notes application is left out
NoApp ==
    /\ counterValue = 0
    /\ notes = <<>>
    /\ storage = <<>>
    /\ countText = ""
    /\ noteList = <<>>
    /\ statusText = ""
    /\ thrown = null
    /\ failures = 0

Init ==
    /\ SessionInit
    /\ call = [fn |-> "boot", args |-> <<>>]
    /\ NoHelperCall
    /\ NoApp

-----------------------------------------------------------------------------
(* Actions *)

\* updateSignal without the Number.isFinite guard of line 184
updateSignalUnchecked(index, value) ==
    /\ pc = "ready"
    /\ signalsDraft' = [signalsDraft EXCEPT ![index + 1] = value.n]
    /\ call' = [fn |-> "updateSignal", args |-> <<index, value>>]
    /\ UNCHANGED <<status, rawInput, runs, error, pc, submitCount>>
    /\ UNCHANGED <<helperVars, appVars>>

\* updateSignal on a draft array that the newest run shares as its signals
\* (a run built without copying the draft): the write shows in the run too
updateSignalAliased(index, value) ==
    /\ pc = "ready"
    /\ IF ~NumberIsFinite(value)
       THEN UNCHANGED <<signalsDraft, runs>>
       ELSE /\ signalsDraft' = [signalsDraft EXCEPT ![index + 1] = value.n]
            /\ runs' = IF runs = <<>> THEN runs
                       ELSE [runs EXCEPT ![1].signals[index + 1] = value.n]
    /\ call' = [fn |-> "updateSignal", args |-> <<index, value>>]
    /\ UNCHANGED <<status, rawInput, error, pc, submitCount>>
    /\ UNCHANGED <<helperVars, appVars>>

updateSignal(index, value) ==
    /\ pc = "ready"
    /\ IF ~NumberIsFinite(value)
       THEN UNCHANGED signalsDraft
       ELSE signalsDraft' = [signalsDraft EXCEPT ![index + 1] = value.n]
    /\ call' = [fn |-> "updateSignal", args |-> <<index, value>>]
    /\ UNCHANGED <<status, rawInput, runs, error, pc, submitCount>>
    /\ UNCHANGED <<helperVars, appVars>>

updateRawInput(value) ==
    /\ pc = "ready"
    /\ rawInput' = value
    /\ call' = [fn |-> "updateRawInput", args |-> <<value>>]
    /\ UNCHANGED <<status, signalsDraft, runs, error, pc, submitCount>>
    /\ UNCHANGED <<helperVars, appVars>>

\* the blank branch also clearing the textarea, as the success branch does
submitBlankClearsInput ==
    /\ pc = "ready"
    /\ Trim(rawInput) = <<>>
    /\ error' = RequiredMessage
    /\ rawInput' = <<>>
    /\ call' = [fn |-> "submitCalibration", args |-> <<>>]
    /\ UNCHANGED <<status, signalsDraft, runs, pc, submitCount>>
    /\ UNCHANGED <<helperVars, appVars>>

\* submitCalibration, lines 195-199: the raw input is blank
submitBlank ==
    /\ pc = "ready"
    /\ Trim(rawInput) = <<>>
    /\ error' = RequiredMessage
    /\ call' = [fn |-> "submitCalibration", args |-> <<>>]
    /\ UNCHANGED <<status, signalsDraft, rawInput, runs, pc, submitCount>>
    /\ UNCHANGED <<helperVars, appVars>>

\* submitCalibration without `state.error = null` (line 202)
submitStartKeepsError ==
    /\ pc = "ready"
    /\ Trim(rawInput) # <<>>
    /\ status' = "running"
    /\ pc' = "running"
    /\ call' = [fn |-> "submitCalibration", args |-> <<>>]
    /\ UNCHANGED <<signalsDraft, rawInput, runs, error, submitCount>>
    /\ UNCHANGED <<helperVars, appVars>>

\* submitCalibration, lines 195-203: up to the render() that shows "running"
submitStart ==
    /\ pc = "ready"
    /\ Trim(rawInput) # <<>>
    /\ status' = "running"
    /\ error' = null
    /\ pc' = "running"
    /\ call' = [fn |-> "submitCalibration", args |-> <<>>]
    /\ UNCHANGED <<signalsDraft, rawInput, runs, submitCount>>
    /\ UNCHANGED <<helperVars, appVars>>

\* the run with derived.concat(state.signalsDraft): derived signals first
NewRunDerivedFirst(timestamp) ==
    LET derived == deriveTextSignals(rawInput)
        signals == derived \o signalsDraft
        metrics == deriveMetrics(signals)
    IN  [ id        |-> Len(runs) + 1,
          timestamp |-> timestamp,
          signals   |-> signals,
          metrics   |-> metrics,
          derived   |-> derived,
          seq       |-> submitCount + 1 ]

\* the run with deriveMetrics(state.signalsDraft): metrics of the draft alone
NewRunMetricsOfDraft(timestamp) ==
    LET derived == deriveTextSignals(rawInput)
        signals == signalsDraft \o derived
        metrics == deriveMetrics(signalsDraft)
    IN  [ id        |-> Len(runs) + 1,
          timestamp |-> timestamp,
          signals   |-> signals,
          metrics   |-> metrics,
          derived   |-> derived,
          seq       |-> submitCount + 1 ]

\* the run object of lines 209-215; seq is a history field, the number of
\* the submit that created the run, counted from the last resetAll
NewRun(timestamp) ==
    LET derived == deriveTextSignals(rawInput)
        signals == signalsDraft \o derived
        metrics == deriveMetrics(signals)
    IN  [ id        |-> Len(runs) + 1,
          timestamp |-> timestamp,
          signals   |-> signals,
          metrics   |-> metrics,
          derived   |-> derived,
          seq       |-> submitCount + 1 ]

\* runs.unshift(run) without the slice of line 216
LoggedUntrimmed(run) == <<run>> \o runs

\* runs.push(run) in place of runs.unshift(run)
LoggedPushed(run) == SubSeq(Append(runs, run), 1, Min2(Len(runs) + 1, RunLogCap))

\* runs.unshift(run); runs = runs.slice(0, 5)
Logged(run) == SubSeq(<<run>> \o runs, 1, Min2(Len(runs) + 1, RunLogCap))

\* submitCalibration without `state.status = "complete"` (line 219)
submitFinishStaysRunning ==
    /\ pc = "running"
    /\ \E timestamp \in DateNow : runs' = Logged(NewRun(timestamp))
    /\ rawInput' = <<>>
    /\ pc' = "ready"
    /\ submitCount' = submitCount + 1
    /\ UNCHANGED <<status, signalsDraft, error, call>>
    /\ UNCHANGED <<helperVars, appVars>>

\* submitCalibration, lines 205-220: from the computation to the last render()
submitFinish ==
    /\ pc = "running"
    /\ \E timestamp \in DateNow : runs' = Logged(NewRun(timestamp))
    /\ rawInput' = <<>>
    /\ status' = "complete"
    /\ pc' = "ready"
    /\ submitCount' = submitCount + 1
    /\ UNCHANGED <<signalsDraft, error, call>>
    /\ UNCHANGED <<helperVars, appVars>>

\* resetAll without `state.runs = []` (line 227)
resetAllKeepsRuns ==
    /\ pc = "ready"
    /\ status' = "idle"
    /\ signalsDraft' = <<10, 20, 30>>
    /\ rawInput' = <<>>
    /\ error' = null
    /\ submitCount' = 0
    /\ call' = [fn |-> "resetAll", args |-> <<>>]
    /\ UNCHANGED <<runs, pc>>
    /\ UNCHANGED <<helperVars, appVars>>

resetAll ==
    /\ pc = "ready"
    /\ status' = "idle"
    /\ signalsDraft' = <<10, 20, 30>>
    /\ rawInput' = <<>>
    /\ runs' = <<>>
    /\ error' = null
    /\ submitCount' = 0
    /\ call' = [fn |-> "resetAll", args |-> <<>>]
    /\ UNCHANGED pc
    /\ UNCHANGED <<helperVars, appVars>>

\* short sessions on the wide inputs: any handler on any input, with
\* submitCalibration creating at most MaxSubmits runs per session
Next ==
    \/ \E index \in Indices, value \in Values : updateSignal(index, value)
    \/ \E value \in Texts : updateRawInput(value)
    \/ submitBlank
    \/ submitCount < MaxSubmits /\ submitStart
    \/ submitFinish
    \/ resetAll

Spec == Init /\ [][Next]_vars

\* long sessions, which fill and trim the run log, on the narrow inputs
NextLog ==
    \/ \E index \in LogIndices, value \in LogValues : updateSignal(index, value)
    \/ \E value \in LogTexts : updateRawInput(value)
    \/ submitBlank
    \/ submitCount < MaxLogSubmits /\ submitStart
    \/ submitFinish
    \/ resetAll

SpecLog == Init /\ [][NextLog]_vars

-----------------------------------------------------------------------------
(* deriveMetrics called on its own *)

\* the longest array handed to deriveMetrics
MaxSampleLen == 3

\* signals in thousandths: -2, -0.01, 0, 0.001, 0.005 and 3
SampleValues == {-2000, -10, 0, 1, 5, 3000}

\* the non-empty arrays of at most MaxSampleLen such signals
Samples == UNION {[1..n -> SampleValues] : n \in 1..MaxSampleLen}

InitMetrics ==
    /\ SessionInit
    /\ call = [fn |-> "boot", args |-> <<>>]
    /\ arg \in Samples
    /\ ret = <<>>
    /\ NoApp

\* const metrics = deriveMetrics(arg)
deriveMetricsCall ==
    /\ call.fn = "boot"
    /\ ret' \in deriveMetricsScaled(arg, SignalUnit)
    /\ call' = [fn |-> "deriveMetrics", args |-> <<arg>>]
    /\ UNCHANGED <<sessionVars, arg, appVars>>

NextMetrics == deriveMetricsCall

SpecMetrics == InitMetrics /\ [][NextMetrics]_vars

-----------------------------------------------------------------------------
(* interpret called on its own *)

\* metrics.mean in hundredths: -5, 0, 10, 10.01 and 10.71
SampleMeans == {-500, 0, 1000, 1001, 1071}

\* metrics.count
SampleCounts == {1, 7, 8, 9, 15}

\* textSignals[0], the trimmed length of the text
SampleTextLengths == {0, 70, 71, 190, 191, 205}

\* textSignals[2], the number of sentences
SampleSentenceCounts == {0, 1, 3, 4, 6, 7}

\* null, or a metrics object
SampleMetrics ==
    {nullMetrics} \cup
    {[min |-> -1, max |-> 30, mean |-> m, count |-> c] :
        m \in SampleMeans, c \in SampleCounts}

\* the empty array render() passes without a run, or the derived values of a
\* text of 2 words and sentiment 0
SampleTextSignals ==
    {<<>>} \cup
    {<<l, 2, n, 0>> : l \in SampleTextLengths, n \in SampleSentenceCounts}

InitInterpret ==
    /\ SessionInit
    /\ call = [fn |-> "boot", args |-> <<>>]
    /\ arg \in [metrics : SampleMetrics, textSignals : SampleTextSignals]
    /\ ret = <<>>
    /\ NoApp

\* const interp = interpret(arg.metrics, arg.textSignals)
interpretCall ==
    /\ call.fn = "boot"
    /\ ret' = interpret(arg.metrics, arg.textSignals)
    /\ call' = [fn |-> "interpret", args |-> <<arg>>]
    /\ UNCHANGED <<sessionVars, arg, appVars>>

NextInterpret == interpretCall

SpecInterpret == InitInterpret /\ [][NextInterpret]_vars

-----------------------------------------------------------------------------
(* JavaScript values *)

JsUndefined == [t |-> "undefined"]

JsNull == [t |-> "null"]

JsBool(b) == [t |-> "boolean", b |-> b]

JsNaN == [t |-> "NaN"]

\* the number n + frac / 10, for an integer n and a digit frac (n >= 0
\* where frac is not 0)
JsNum(n, frac) == [t |-> "number", n |-> n, frac |-> frac]

\* the string of the characters s
JsStr(s) == [t |-> "string", s |-> s]

JsArr(items) == [t |-> "array", items |-> items]

\* a plain object; fields is a function from its own property names to values
JsObj(fields) == [t |-> "object", fields |-> fields]

\* Number.isInteger(v)
NumberIsInteger(v) == v.t = "number" /\ v.frac = 0

\* Array.isArray(v)
ArrayIsArray(v) == v.t = "array"

\* typeof v === "object"
TypeofObject(v) == v.t \in {"null", "array", "object"}

\* v && ..., for the values met here (an object or an array is truthy)
Truthy(v) ==
    CASE v.t \in {"undefined", "null", "NaN"} -> FALSE
      [] v.t = "boolean" -> v.b
      [] v.t = "number" -> v.n # 0 \/ v.frac # 0
      [] v.t = "string" -> v.s # <<>>
      [] OTHER -> TRUE

\* v[name], for a value that is not null or undefined
Get(v, name) ==
    IF v.t = "object" /\ name \in DOMAIN v.fields THEN v.fields[name]
    ELSE JsUndefined

Digits == <<"0","1","2","3","4","5","6","7","8","9">>

\* the decimal digits of a natural number
RECURSIVE NatToString(_)
NatToString(n) ==
    IF n < 10 THEN <<Digits[n + 1]>>
    ELSE NatToString(n \div 10) \o <<Digits[(n % 10) + 1]>>

ObjectObject == <<"[","o","b","j","e","c","t"," ","O","b","j","e","c","t","]">>

\* String(v) for the scalars and plain objects met here: [throws |-> TRUE]
\* where the conversion throws a TypeError, the characters otherwise.  A
\* parsed object whose own toString is not callable (nothing JSON.parse
\* makes is) falls through to valueOf, which yields no primitive, and throws.
String(v) ==
    CASE v.t = "undefined" ->
            [throws |-> FALSE, s |-> <<"u","n","d","e","f","i","n","e","d">>]
      [] v.t = "null" -> [throws |-> FALSE, s |-> <<"n","u","l","l">>]
      [] v.t = "NaN" -> [throws |-> FALSE, s |-> <<"N","a","N">>]
      [] v.t = "boolean" ->
            [throws |-> FALSE,
             s |-> IF v.b THEN <<"t","r","u","e">> ELSE <<"f","a","l","s","e">>]
      [] v.t = "number" ->
            [throws |-> FALSE,
             s |-> (IF v.n < 0 THEN <<"-">> ELSE <<>>) \o NatToString(Abs(v.n))
                   \o (IF v.frac = 0 THEN <<>> ELSE <<".", Digits[v.frac + 1]>>)]
      [] v.t = "string" -> [throws |-> FALSE, s |-> v.s]
      [] v.t = "object" ->
            IF "toString" \in DOMAIN v.fields THEN [throws |-> TRUE]
            ELSE [throws |-> FALSE, s |-> ObjectObject]

-----------------------------------------------------------------------------
(* NotesModel *)

\* s.replace(/\s+/g, " "): every maximal run of white space becomes one space
RECURSIVE ReplaceWhiteSpaceRuns(_, _)
ReplaceWhiteSpaceRuns(s, inRun) ==
    IF s = <<>> THEN <<>>
    ELSE IF Head(s) \in WhiteSpace
         THEN IF inRun THEN ReplaceWhiteSpaceRuns(Tail(s), TRUE)
              ELSE <<" ">> \o ReplaceWhiteSpaceRuns(Tail(s), TRUE)
         ELSE <<Head(s)>> \o ReplaceWhiteSpaceRuns(Tail(s), FALSE)

\* NotesModel.#sanitize(input): String(input ?? "").trim().replace(/\s+/g, " ")
sanitize(input) ==
    LET str == IF input.t \in {"undefined", "null"}
               THEN [throws |-> FALSE, s |-> <<>>]
               ELSE String(input)
    IN  IF str.throws THEN str
        ELSE [throws |-> FALSE, s |-> ReplaceWhiteSpaceRuns(Trim(str.s), FALSE)]

\* new NotesModel(initialNotes), for an array: the TypeError of a sanitize
\* that throws leaves the constructor, otherwise #notes holds the non-empty
\* sanitized elements
NewNotesModel(initialNotes) ==
    IF \E i \in 1..Len(initialNotes) : sanitize(initialNotes[i]).throws
    THEN [throws |-> TRUE]
    ELSE [throws |-> FALSE,
          notes  |-> FilterNonEmpty(
                        [i \in 1..Len(initialNotes) |->
                            sanitize(initialNotes[i]).s])]

\* #notes after splice(index, 1), for the 0-based index of an element
Splice1(list, index) ==
    SubSeq(list, 1, index) \o SubSeq(list, index + 2, Len(list))

\* the notes a NotesModel is made to hold
MaxNotes == 3

\* texts handed to the constructor and to add: "", " \t", "a", " b \n  c ",
\* null and the number 5
NoteTexts ==
    { JsStr(<<>>), JsStr(<<" ", "\t">>), JsStr(<<"a">>),
      JsStr(<<" ", "b", " ", "\n", " ", " ", "c", " ">>), JsNull, JsNum(5, 0) }

\* indices handed to removeAt: -1 .. MaxNotes, 1.5, NaN and the string "0"
NoteIndices ==
    { JsNum(i, 0) : i \in -1..MaxNotes } \cup
    { JsNum(1, 5), JsNaN, JsStr(<<"0">>) }

\* the arrays of at most two texts handed to the constructor
InitialNotes == UNION {[1..n -> NoteTexts] : n \in 0..2}

\* the application is reduced to a NotesModel
OnlyNotesModel ==
    /\ counterValue = 0
    /\ storage = <<>>
    /\ countText = ""
    /\ noteList = <<>>
    /\ statusText = ""
    /\ thrown = null
    /\ failures = 0

\* const model = new NotesModel(initialNotes)
InitNotes ==
    /\ SessionInit
    /\ arg = <<>>
    /\ OnlyNotesModel
    /\ \E initialNotes \in InitialNotes :
          /\ notes = NewNotesModel(initialNotes).notes
          /\ call = [fn |-> "constructor", args |-> <<initialNotes>>]
    /\ ret = JsUndefined

\* model.add(noteText)
add(noteText) ==
    LET v == sanitize(noteText).s
    IN  /\ IF v = <<>>
           THEN notes' = notes /\ ret' = JsNull
           ELSE /\ Len(notes) < MaxNotes
                /\ notes' = Append(notes, v)
                /\ ret' = JsStr(v)
        /\ call' = [fn |-> "add", args |-> <<noteText>>]
        /\ UNCHANGED <<sessionVars, arg, counterValue, storage, countText,
                       noteList, statusText, thrown, failures>>

\* removeAt with index > length in place of index >= length
removeAtOffByOne(index) ==
    /\ IF ~NumberIsInteger(index) \/ index.n < 0 \/ index.n > Len(notes)
       THEN notes' = notes /\ ret' = JsBool(FALSE)
       ELSE notes' = Splice1(notes, index.n) /\ ret' = JsBool(TRUE)
    /\ call' = [fn |-> "removeAt", args |-> <<index>>]
    /\ UNCHANGED <<sessionVars, arg, counterValue, storage, countText,
                   noteList, statusText, thrown, failures>>

\* model.removeAt(index)
removeAt(index) ==
    /\ IF ~NumberIsInteger(index) \/ index.n < 0 \/ index.n >= Len(notes)
       THEN notes' = notes /\ ret' = JsBool(FALSE)
       ELSE notes' = Splice1(notes, index.n) /\ ret' = JsBool(TRUE)
    /\ call' = [fn |-> "removeAt", args |-> <<index>>]
    /\ UNCHANGED <<sessionVars, arg, counterValue, storage, countText,
                   noteList, statusText, thrown, failures>>

\* model.clear()
clear ==
    /\ notes' = <<>>
    /\ ret' = JsUndefined
    /\ call' = [fn |-> "clear", args |-> <<>>]
    /\ UNCHANGED <<sessionVars, arg, counterValue, storage, countText,
                   noteList, statusText, thrown, failures>>

NextNotes ==
    \/ \E noteText \in NoteTexts : add(noteText)
    \/ \E index \in NoteIndices : removeAt(index)
    \/ clear

SpecNotes == InitNotes /\ [][NextNotes]_vars

-----------------------------------------------------------------------------
(* Store and bootstrap *)

\* localStorage.getItem(key) returns null
Missing == [kind |-> "missing"]

\* localStorage.getItem(key) throws
Denied == [kind |-> "denied"]

\* what JSON.parse does with a text that is not JSON
SyntaxError == [t |-> "SyntaxError"]

\* the entry holds a text; parsed is what JSON.parse makes of it
Text(parsed) == [kind |-> "text", parsed |-> parsed]

\* the entry setItem(key, JSON.stringify(value)) leaves, for an object of
\* integers, strings and arrays of strings: its text parses back to value
Stringified(value) == Text(value)

\* store.load() on the entry, for the store's fallbackValue
load(entry, fallbackValue) ==
    CASE entry.kind = "missing" -> fallbackValue
      [] entry.kind = "denied" -> fallbackValue
      [] entry.kind = "text" ->
            IF entry.parsed = SyntaxError THEN fallbackValue ELSE entry.parsed

\* entries of "static-app.counter.v1": none, unreadable, not JSON, null, 3,
\* "x", [2], {}, {value: null}, {value: 1.5}, {value: "2"}, {value: 2} and
\* {value: -1}
CounterEntries ==
    { Missing, Denied, Text(SyntaxError), Text(JsNull), Text(JsNum(3, 0)),
      Text(JsStr(<<"x">>)), Text(JsArr(<<JsNum(2, 0)>>)), Text(JsObj(<<>>)),
      Text(JsObj([value |-> JsNull])),
      Text(JsObj([value |-> JsNum(1, 5)])),
      Text(JsObj([value |-> JsStr(<<"2">>)])),
      Text(JsObj([value |-> JsNum(2, 0)])),
      Text(JsObj([value |-> JsNum(-1, 0)])) }

\* entries of "static-app.notes.v1": none, unreadable, not JSON, null, 3,
\* [], {}, {notes: null}, {notes: "a"}, {notes: {}}, {notes: []},
\* {notes: ["a"]}, {notes: [" b \n  c ", "", null, 5, "a"]}, {notes: [{}]}
\* and {notes: ["a", {toString: 0}]}
NotesEntries ==
    { Missing, Denied, Text(SyntaxError), Text(JsNull), Text(JsNum(3, 0)),
      Text(JsArr(<<>>)), Text(JsObj(<<>>)),
      Text(JsObj([notes |-> JsNull])),
      Text(JsObj([notes |-> JsStr(<<"a">>)])),
      Text(JsObj([notes |-> JsObj(<<>>)])),
      Text(JsObj([notes |-> JsArr(<<>>)])),
      Text(JsObj([notes |-> JsArr(<<JsStr(<<"a">>)>>)])),
      Text(JsObj([notes |->
          JsArr(<<JsStr(<<" ", "b", " ", "\n", " ", " ", "c", " ">>),
                  JsStr(<<>>), JsNull, JsNum(5, 0), JsStr(<<"a">>)>>)])),
      Text(JsObj([notes |-> JsArr(<<JsObj(<<>>)>>)])),
      Text(JsObj([notes |->
          JsArr(<<JsStr(<<"a">>), JsObj([toString |-> JsNum(0, 0)])>>)])) }

\* bootstrap() on the storage `store`, with the page's elements in place:
\* the two loads, the shape checks, the models, and controller.start()
\* rendering both.  A TypeError of new NotesModel leaves bootstrap before
\* anything is rendered or bound; the CounterModel is made by then.
Boot(store) ==
    LET counterState == load(store.counter, JsObj([value |-> JsNum(0, 0)]))
        notesState   == load(store.notes, JsObj([notes |-> JsArr(<<>>)]))
        initialCounterValue ==
            IF /\ Truthy(counterState)
               /\ TypeofObject(counterState)
               /\ NumberIsInteger(Get(counterState, "value"))
            THEN Get(counterState, "value").n
            ELSE 0
        initialNotes ==
            IF /\ Truthy(notesState)
               /\ TypeofObject(notesState)
               /\ ArrayIsArray(Get(notesState, "notes"))
            THEN Get(notesState, "notes").items
            ELSE <<>>
        model == NewNotesModel(initialNotes)
    IN  IF model.throws
        THEN [thrown |-> "TypeError", counterValue |-> initialCounterValue,
              notes |-> <<>>, countText |-> "", noteList |-> <<>>,
              statusText |-> ""]
        ELSE [thrown |-> null, counterValue |-> initialCounterValue,
              notes |-> model.notes,
              countText |-> ToString(initialCounterValue),
              noteList |-> model.notes, statusText |-> "Ready"]

\* the page before bootstrap runs, for every pair of stored entries
InitBoot ==
    /\ SessionInit
    /\ NoHelperCall
    /\ storage \in [counter : CounterEntries, notes : NotesEntries]
    /\ counterValue = 0
    /\ notes = <<>>
    /\ countText = ""
    /\ noteList = <<>>
    /\ statusText = ""
    /\ thrown = null
    /\ failures = 0
    /\ call = [fn |-> "DOMContentLoaded", args |-> <<>>, accepted |-> TRUE]

\* bootstrap()
bootstrap ==
    /\ call.fn = "DOMContentLoaded"
    /\ LET booted == Boot(storage)
       IN  /\ counterValue' = booted.counterValue
           /\ notes' = booted.notes
           /\ countText' = booted.countText
           /\ noteList' = booted.noteList
           /\ statusText' = booted.statusText
           /\ thrown' = booted.thrown
    /\ call' = [fn |-> "bootstrap", args |-> <<>>, accepted |-> TRUE]
    /\ UNCHANGED <<sessionVars, helperVars, storage, failures>>

NextBoot == bootstrap

SpecBoot == InitBoot /\ [][NextBoot]_vars

-----------------------------------------------------------------------------
(* AppController *)

\* the counter values explored lie in -MaxCounter .. MaxCounter
MaxCounter == 2

\* the notes the application is made to hold
MaxAppNotes == 2

\* the writes localStorage is made to refuse
MaxFailures == 1

\* what the user types into #noteInput: "", " \t", "a" and " b \n  c "
AppTexts == { v \in NoteTexts : v.t = "string" }

\* the clicks on the counter buttons
Kinds == {"inc", "dec", "reset"}

\* an empty localStorage
EmptyStorage == [counter |-> Missing, notes |-> Missing]

\* the application as bootstrap() leaves it on an empty localStorage
InitApp ==
    /\ SessionInit
    /\ NoHelperCall
    /\ storage = EmptyStorage
    /\ LET booted == Boot(EmptyStorage)
       IN  /\ counterValue = booted.counterValue
           /\ notes = booted.notes
           /\ countText = booted.countText
           /\ noteList = booted.noteList
           /\ statusText = booted.statusText
           /\ thrown = booted.thrown
    /\ failures = 0
    /\ call = [fn |-> "bootstrap", args |-> <<>>, accepted |-> TRUE]

\* the object { value: v } handed to counterStore.save
CounterState(v) == JsObj([value |-> JsNum(v, 0)])

\* the object { notes: list } handed to notesStore.save
NotesState(list) ==
    JsObj([notes |-> JsArr([i \in 1..Len(list) |-> JsStr(list[i])])])

\* #updateCounter(kind); `writes` tells whether localStorage.setItem takes
\* the write or throws, in which case the exception leaves the handler
\* before the two render calls
updateCounter(kind, writes) ==
    LET v == CASE kind = "inc" -> counterValue + 1
               [] kind = "dec" -> counterValue - 1
               [] OTHER -> 0
    IN  /\ Abs(v) <= MaxCounter
        /\ ~writes => failures < MaxFailures
        /\ counterValue' = v
        /\ IF writes
           THEN /\ storage' = [storage EXCEPT
                                  !.counter = Stringified(CounterState(v))]
                /\ countText' = ToString(v)
                /\ statusText' = "Counter: " \o ToString(v)
                /\ thrown' = null
                /\ failures' = failures
           ELSE /\ thrown' = "QuotaExceededError"
                /\ failures' = failures + 1
                /\ UNCHANGED <<storage, countText, statusText>>
        /\ call' = [fn |-> "updateCounter", args |-> <<kind>>,
                    accepted |-> TRUE]
        /\ UNCHANGED <<sessionVars, helperVars, notes, noteList>>

\* #addNote(text), for the string typed into #noteInput
addNote(text, writes) ==
    LET added == sanitize(text).s
    IN  /\ IF added = <<>>
           THEN /\ statusText' = "Note was empty"
                /\ thrown' = null
                /\ UNCHANGED <<notes, storage, noteList, failures>>
           ELSE /\ Len(notes) < MaxAppNotes
                /\ ~writes => failures < MaxFailures
                /\ notes' = Append(notes, added)
                /\ IF writes
                   THEN /\ storage' = [storage EXCEPT
                              !.notes = Stringified(NotesState(notes'))]
                        /\ noteList' = notes'
                        /\ statusText' = "Note added"
                        /\ thrown' = null
                        /\ failures' = failures
                   ELSE /\ thrown' = "QuotaExceededError"
                        /\ failures' = failures + 1
                        /\ UNCHANGED <<storage, noteList, statusText>>
        /\ call' = [fn |-> "addNote", args |-> <<text>>,
                    accepted |-> added # <<>>]
        /\ UNCHANGED <<sessionVars, helperVars, counterValue, countText>>

\* #removeNote without the save
removeNoteUnsaved(index, writes) ==
    LET ok == index >= 0 /\ index < Len(notes)
    IN  /\ IF ~ok
           THEN /\ thrown' = null
                /\ UNCHANGED <<notes, storage, noteList, statusText, failures>>
           ELSE /\ notes' = Splice1(notes, index)
                /\ noteList' = notes'
                /\ statusText' = "Note removed"
                /\ thrown' = null
                /\ UNCHANGED <<storage, failures>>
        /\ call' = [fn |-> "removeNote", args |-> <<index>>, accepted |-> ok]
        /\ UNCHANGED <<sessionVars, helperVars, counterValue, countText>>

\* #removeNote(index), for the integer data-index of the item clicked
removeNote(index, writes) ==
    LET ok == index >= 0 /\ index < Len(notes)
    IN  /\ IF ~ok
           THEN /\ thrown' = null
                /\ UNCHANGED <<notes, storage, noteList, statusText, failures>>
           ELSE /\ ~writes => failures < MaxFailures
                /\ notes' = Splice1(notes, index)
                /\ IF writes
                   THEN /\ storage' = [storage EXCEPT
                              !.notes = Stringified(NotesState(notes'))]
                        /\ noteList' = notes'
                        /\ statusText' = "Note removed"
                        /\ thrown' = null
                        /\ failures' = failures
                   ELSE /\ thrown' = "QuotaExceededError"
                        /\ failures' = failures + 1
                        /\ UNCHANGED <<storage, noteList, statusText>>
        /\ call' = [fn |-> "removeNote", args |-> <<index>>, accepted |-> ok]
        /\ UNCHANGED <<sessionVars, helperVars, counterValue, countText>>

\* the indices the rendered list offers: data-index of its items
RenderedIndices == 0 .. (Len(noteList) - 1)

NextApp ==
    \/ \E kind \in Kinds, writes \in BOOLEAN : updateCounter(kind, writes)
    \/ \E text \in AppTexts, writes \in BOOLEAN : addNote(text, writes)
    \/ \E index \in RenderedIndices, writes \in BOOLEAN :
          removeNote(index, writes)

SpecApp == InitApp /\ [][NextApp]_vars

-----------------------------------------------------------------------------
(* Steps and states the properties speak about *)

\* a step that is a call of submitCalibration on a blank raw input
BlankSubmitStep ==
    /\ pc = "ready"
    /\ Trim(rawInput) = <<>>
    /\ call'.fn = "submitCalibration"

\* the first step of a call of submitCalibration on a non-blank raw input
SubmitStartStep == pc = "ready" /\ pc' = "running"

\* the step that ends a call of submitCalibration on a non-blank raw input
SubmitFinishStep == pc = "running" /\ pc' = "ready"

\* the state between two events whose last event was a call of fn
After(fn) == pc = "ready" /\ call.fn = fn

-----------------------------------------------------------------------------
(* Properties *)

\* C1: in every reachable state the run log holds at most 5 runs.
C1_RunLogAtMostFive == Len(runs) <= 5

\* a full log that has already dropped a run
C1_Witness == Len(runs) = 5 /\ submitCount >= 6

\* C2: run ids are not reused: every run in the log has an id strictly
\* greater than the id of every older run in the log, so no two runs of the
\* log share an id.  (Fails: id = runs.length + 1 is 6 for every submit made
\* on a full log.)
C2_IdsStrictlyIncreasing ==
    \A i, j \in 1..Len(runs) : i < j => runs[i].id > runs[j].id

\* C3: a submit on a blank raw input sets status to "error".  (Fails: the
\* blank branch sets state.error and leaves state.status alone.)
C3_BlankSubmitSetsErrorStatus ==
    [][BlankSubmitStep => status' = "error"]_vars

\* C4: a submit on a blank raw input creates no run, sets the error message
\* and leaves the run log, the signal draft and the raw input as they were.
C4_BlankSubmitOnlySetsError ==
    [][BlankSubmitStep =>
          /\ error' = RequiredMessage
          /\ runs' = runs
          /\ submitCount' = submitCount
          /\ signalsDraft' = signalsDraft
          /\ rawInput' = rawInput]_vars

\* after a blank submit made with a whitespace-only input, an edited draft
\* and a logged run
C4_Witness ==
    /\ After("submitCalibration")
    /\ error = RequiredMessage
    /\ rawInput = SpacesText
    /\ runs # <<>>
    /\ signalsDraft # DefaultSignals

\* C5: resetAll leaves exactly the initial state: status idle, draft
\* [10,20,30], raw input empty, run log empty, error cleared.
C5_ResetRestoresInitial ==
    After("resetAll") =>
        /\ status = "idle"
        /\ signalsDraft = <<10, 20, 30>>
        /\ rawInput = <<>>
        /\ runs = <<>>
        /\ error = null

C5_Witness == After("resetAll") /\ status = "idle" /\ runs = <<>>

\* C6: the log is newest first.  A successful submit puts its run at position
\* 0, keeps the runs logged before in their order behind it and drops only
\* the oldest one beyond 5; so the log always holds the latest submits of the
\* session in descending order: after 6 submits those of submits 6,5,4,3,2.
C6_NewestFirst ==
    /\ [](/\ Len(runs) = Min2(submitCount, 5)
          /\ \A i \in 1..Len(runs) : runs[i].seq = submitCount - i + 1)
    /\ [][SubmitFinishStep =>
            /\ runs'[1].seq = submitCount + 1
            /\ Len(runs') = Min2(Len(runs) + 1, 5)
            /\ \A i \in 2..Len(runs') : runs'[i] = runs[i - 1]]_vars

\* after the sixth submit of a session: the first run has been dropped
C6_Witness ==
    /\ After("submitCalibration")
    /\ submitCount = 6
    /\ [i \in 1..Len(runs) |-> runs[i].seq] = <<6, 5, 4, 3, 2>>

\* the derived values of the texts of the model, counted by hand:
\* "Hello world." has 12 characters, 2 words, 1 sentence and no lexicon word;
\* "OK? bad" has 7 characters, 2 words ("OK?", "bad"), 2 sentences and one
\* negative word
ExpectedDerived(text) ==
    IF text = HelloText THEN <<12, 2, 1, 0>> ELSE <<7, 2, 2, -1>>

\* m is the aggregate of the signals s: the least and the greatest element,
\* the mean to the nearest hundredth, and the number of elements
IsAggregateOf(m, s) ==
    /\ \E k \in 1..Len(s) : m.min = s[k]
    /\ \A k \in 1..Len(s) : m.min <= s[k]
    /\ \E k \in 1..Len(s) : m.max = s[k]
    /\ \A k \in 1..Len(s) : m.max >= s[k]
    /\ 2 * Abs(Len(s) * m.mean - 100 * SeqSum(s)) <= Len(s)
    /\ m.count = Len(s)

\* C7: the run of a successful submit has as signals the draft at submit time
\* followed by the four derived values of the raw input at submit time, as
\* derived those four values, and as metrics the aggregate of the signals.
C7_RunOfDraftAndDerived ==
    [][SubmitFinishStep =>
          /\ runs'[1].derived = ExpectedDerived(rawInput)
          /\ runs'[1].signals = signalsDraft \o ExpectedDerived(rawInput)
          /\ IsAggregateOf(runs'[1].metrics, runs'[1].signals)]_vars

\* the example of the specification: draft [10,20,30] and "Hello world."
C7_Witness ==
    /\ After("submitCalibration")
    /\ status = "complete"
    /\ signalsDraft = <<10, 20, 30>>
    /\ runs # <<>>
    /\ runs[1].signals = <<10, 20, 30, 12, 2, 1, 0>>
    /\ runs[1].derived = <<12, 2, 1, 0>>
    /\ runs[1].metrics = [min |-> 0, max |-> 30, mean |-> 1071, count |-> 7]

\* C8: a successful submit leaves the signal draft unchanged, empties the raw
\* input, clears the error and ends with status "complete".
C8_SubmitFrame ==
    [][/\ SubmitStartStep \/ SubmitFinishStep => signalsDraft' = signalsDraft
       /\ SubmitFinishStep =>
            /\ rawInput' = <<>>
            /\ error' = null
            /\ status' = "complete"]_vars

\* after a successful submit made on an edited draft
C8_Witness ==
    /\ After("submitCalibration")
    /\ status = "complete"
    /\ error = null
    /\ rawInput = <<>>
    /\ signalsDraft = <<10, -4, 30>>
    /\ runs # <<>>
    /\ runs[1].signals = <<10, -4, 30, 7, 2, 2, -1>>

\* C9: updateSignal with a non-finite value changes nothing and sets no
\* error; with a finite value it overwrites the element at the index and
\* nothing else.
C9_UpdateSignal ==
    [][call'.fn = "updateSignal" =>
          LET index == call'.args[1]
              value == call'.args[2]
          IN  /\ value \in NonFinite => signalsDraft' = signalsDraft
              /\ value \notin NonFinite =>
                    /\ Len(signalsDraft') = Len(signalsDraft)
                    /\ signalsDraft'[index + 1] = value.n
                    /\ \A k \in 1..Len(signalsDraft) :
                          k # index + 1 => signalsDraft'[k] = signalsDraft[k]
              /\ rawInput' = rawInput
              /\ runs' = runs
              /\ status' = status
              /\ error' = error]_vars

\* a NaN handed to row 1 after -4 was stored in row 0: the draft keeps its 20
C9_Witness ==
    /\ call = [fn |-> "updateSignal", args |-> <<1, [kind |-> "NaN", n |-> 0]>>]
    /\ signalsDraft = <<-4, 20, 30>>
    /\ error = null

\* C10: "running" is transient: a successful submit shows it before the
\* computation, no handler ends with it, and the only status to follow it
\* is "complete".
C10_RunningIsTransient ==
    /\ [](pc = "ready" => status # "running")
    /\ [][/\ SubmitStartStep => status' = "running"
          /\ status = "running" => status' = "complete"]_vars

\* inside submitCalibration, at the render() of line 203
C10_Witness == pc = "running" /\ status = "running"

\* C11: a logged run is immutable.  Across any step a run that stays in the
\* log keeps its id, timestamp, signals, metrics and derived values and moves
\* only towards the old end; updateSignal and updateRawInput leave the whole
\* log as it is.  (seq tells which run of the session an entry is.)
C11_RunsImmutable ==
    [][/\ \A i \in 1..Len(runs) : \A j \in 1..Len(runs') :
              runs'[j].seq = runs[i].seq => runs'[j] = runs[i] /\ j >= i
       /\ call'.fn \in {"updateSignal", "updateRawInput"} => runs' = runs]_vars

\* the draft was edited after a submit: the run keeps the 10 it was made with
C11_Witness ==
    /\ After("updateSignal")
    /\ signalsDraft = <<-4, 20, 30>>
    /\ runs # <<>>
    /\ runs[1].signals = <<10, 20, 30, 12, 2, 1, 0>>
    /\ runs[1].metrics = [min |-> 0, max |-> 30, mean |-> 1071, count |-> 7]

\* C12: for every run in the log, metrics.count is the length of its signals.
C12_CountIsLength ==
    \A i \in 1..Len(runs) : runs[i].metrics.count = Len(runs[i].signals)

\* two logged runs of 7 signals each
C12_Witness ==
    /\ Len(runs) = 2
    /\ \A i \in 1..2 : Len(runs[i].signals) = 7 /\ runs[i].metrics.count = 7

\* the arithmetic mean of the array s of numbers in 1/unit, rounded to two
\* decimals: the hundredths h with |h / 100 - sum / (unit * n)| <= 0.005
IsRoundedMean(h, s, unit) ==
    2 * Abs(h * unit * Len(s) - 100 * SeqSum(s)) <= unit * Len(s)

\* min and max of the result are the smallest and the largest element of s
IsMinMaxOf(m, s) ==
    /\ \E i \in 1..Len(s) : s[i] = m.min
    /\ \E i \in 1..Len(s) : s[i] = m.max
    /\ \A i \in 1..Len(s) : m.min <= s[i] /\ s[i] <= m.max

\* C13 as stated: for every non-empty numeric array, deriveMetrics returns the
\* smallest element as min, the largest as max, the arithmetic mean rounded
\* to two decimals as mean, and min <= mean <= max.
C13_MeanBetweenMinAndMax ==
    call.fn = "deriveMetrics" =>
        /\ IsMinMaxOf(ret, arg)
        /\ IsRoundedMean(ret.mean, arg, SignalUnit)
        /\ 100 * ret.min <= SignalUnit * ret.mean
        /\ SignalUnit * ret.mean <= 100 * ret.max

\* every element of s has at most two decimals
TwoDecimals(s) == \A i \in 1..Len(s) : (100 * s[i]) % SignalUnit = 0

\* C13 amended: min, max and the rounded mean are as stated for every array;
\* min <= mean <= max holds for the arrays whose elements have at most two
\* decimals, and for the others the mean is within 0.005 of [min, max].
C13_MeanBetweenMinAndMaxTwoDecimals ==
    call.fn = "deriveMetrics" =>
        /\ IsMinMaxOf(ret, arg)
        /\ IsRoundedMean(ret.mean, arg, SignalUnit)
        /\ TwoDecimals(arg) =>
              /\ 100 * ret.min <= SignalUnit * ret.mean
              /\ SignalUnit * ret.mean <= 100 * ret.max
        /\ 200 * ret.min - SignalUnit <= 2 * SignalUnit * ret.mean
        /\ 2 * SignalUnit * ret.mean <= 200 * ret.max + SignalUnit

\* deriveMetrics([-2, 3, -0.01]) = {min: -2, max: 3, mean: 0.33, count: 3}
C13_Witness ==
    /\ call.fn = "deriveMetrics"
    /\ arg = <<-2000, 3000, -10>>
    /\ ret = [min |-> -2000, max |-> 3000, mean |-> 33, count |-> 3]

\* C14: for every metrics object and derived vector, pressure is High exactly
\* when mean + textLength > 200, Medium exactly when 80 < mean + textLength
\* <= 200, and Low otherwise (a missing textLength counts as 0).
C14_PressureThresholds ==
    call.fn = "interpret" /\ arg.metrics # nullMetrics =>
        LET textLength == IF arg.textSignals = <<>> THEN 0
                          ELSE arg.textSignals[1]
            total      == arg.metrics.mean + 100 * textLength
        IN  /\ ret.pressure = "High" <=> total > 20000
            /\ ret.pressure = "Medium" <=> 8000 < total /\ total <= 20000
            /\ ret.pressure = "Low" <=> total <= 8000

\* mean 10 and a text of 190 characters: exactly 200, Medium
C14_Witness ==
    /\ call.fn = "interpret"
    /\ arg.metrics # nullMetrics
    /\ arg.metrics.mean = 1000
    /\ arg.textSignals # <<>>
    /\ arg.textSignals[1] = 190
    /\ ret.pressure = "Medium"

\* C15: readiness is Ready exactly when pressure is not High and clarity is
\* High; clarity is Low for more than 6 sentences, Medium for 4 to 6 and High
\* otherwise; a sentence count of 0 (or a missing one) counts as 1, also in
\* the load, which weighs metrics.count plus the sentence count.
C15_ReadinessAndClarity ==
    call.fn = "interpret" /\ arg.metrics # nullMetrics =>
        LET derived   == IF arg.textSignals = <<>> THEN 0
                         ELSE arg.textSignals[3]
            sentences == IF derived = 0 THEN 1 ELSE derived
            weight    == arg.metrics.count + sentences
        IN  /\ ret.readiness \in {"Ready", "Not Ready"}
            /\ ret.readiness = "Ready" <=>
                  ret.pressure # "High" /\ ret.clarity = "High"
            /\ ret.clarity = CASE sentences > 6 -> "Low"
                               [] sentences > 3 /\ sentences <= 6 -> "Medium"
                               [] OTHER -> "High"
            /\ ret.load = CASE weight > 15 -> "High"
                            [] weight > 8 /\ weight <= 15 -> "Medium"
                            [] OTHER -> "Low"

\* no sentence and 8 signals: the sentence count 1 makes the load Medium
C15_Witness ==
    /\ call.fn = "interpret"
    /\ arg.metrics # nullMetrics
    /\ arg.metrics.count = 8
    /\ arg.textSignals # <<>>
    /\ arg.textSignals[3] = 0
    /\ ret.load = "Medium"
    /\ ret.clarity = "High"
    /\ ret.readiness = "Ready"

\* the interpretation of a run as the specification words it, from the run's
\* metrics and derived values alone
ExpectedInterpretation(run) ==
    LET total     == run.metrics.mean + 100 * run.derived[1]
        sentences == IF run.derived[3] = 0 THEN 1 ELSE run.derived[3]
        weight    == run.metrics.count + sentences
        p == CASE total > 20000 -> "High" [] total > 8000 /\ total <= 20000 -> "Medium"
               [] OTHER -> "Low"
        l == CASE weight > 15 -> "High" [] weight > 8 /\ weight <= 15 -> "Medium"
               [] OTHER -> "Low"
        c == CASE sentences > 6 -> "Low" [] sentences > 3 /\ sentences <= 6 -> "Medium"
               [] OTHER -> "High"
    IN  [pressure |-> p, load |-> l, clarity |-> c,
         readiness |-> IF p # "High" /\ c = "High" THEN "Ready" ELSE "Not Ready"]

\* C16: with an empty run log the interpretation on display is the baseline
\* {Low, Low, Low, Not Ready}, whatever the drafts, status and error; with a
\* non-empty log it is the interpretation of the newest run.
C16_InterpretationOfNewest ==
    /\ runs = <<>> =>
          Interpretation = [pressure |-> "Low", load |-> "Low", clarity |-> "Low",
                            readiness |-> "Not Ready"]
    /\ runs # <<>> => Interpretation = ExpectedInterpretation(runs[1])

\* the newest run ("OK? bad", load Medium) differs from the older one
\* ("Hello world.", load Low) and the display follows the newest
C16_Witness ==
    /\ Len(runs) = 2
    /\ runs[1].derived = <<7, 2, 2, -1>>
    /\ runs[2].derived = <<12, 2, 1, 0>>
    /\ Interpretation.load = "Medium"
    /\ ExpectedInterpretation(runs[2]).load = "Low"

\* a note as NotesModel is to hold it: not empty, no white space at either
\* end, and no white space inside other than single spaces
IsTidy(s) ==
    /\ s # <<>>
    /\ s[1] \notin WhiteSpace
    /\ s[Len(s)] \notin WhiteSpace
    /\ \A k \in 1..Len(s) :
          s[k] \in WhiteSpace => s[k] = " " /\ s[k + 1] \notin WhiteSpace

\* a text add rejects: null, undefined, or a string of white space only
IsBlank(v) ==
    \/ v.t \in {"undefined", "null"}
    \/ v.t = "string" /\ \A k \in 1..Len(v.s) : v.s[k] \in WhiteSpace

\* an index removeAt accepts for the list: an integer from 0 to length - 1
IsValidIndex(v, list) ==
    v.t = "number" /\ v.frac = 0 /\ v.n \in 0..(Len(list) - 1)

\* C20: after construction and after any add, removeAt or clear every note
\* is non-empty, has no white space at either end and none inside but single
\* spaces; add of a blank text returns null and removeAt of a non-integer or
\* out-of-range index returns false, both leaving the list as it was; a
\* valid removeAt returns true and removes that one element, the others
\* keeping their order.
C20_NotesTidy ==
    /\ [](\A i \in 1..Len(notes) : IsTidy(notes[i]))
    /\ [][/\ call'.fn = "add" /\ IsBlank(call'.args[1]) =>
                ret' = JsNull /\ notes' = notes
          /\ call'.fn = "add" /\ ~IsBlank(call'.args[1]) =>
                /\ ret'.t = "string"
                /\ notes' = Append(notes, ret'.s)
          /\ call'.fn = "removeAt" /\ ~IsValidIndex(call'.args[1], notes) =>
                ret' = JsBool(FALSE) /\ notes' = notes
          /\ call'.fn = "removeAt" /\ IsValidIndex(call'.args[1], notes) =>
                LET index == call'.args[1].n
                IN  /\ ret' = JsBool(TRUE)
                    /\ Len(notes') = Len(notes) - 1
                    /\ \A k \in 1..Len(notes') :
                          notes'[k] = IF k <= index THEN notes[k]
                                      ELSE notes[k + 1]
          /\ call'.fn = "clear" => notes' = <<>>]_vars

\* removeAt(1) has taken "b c" out of ["a", "b c", "5"]
C20_Witness ==
    /\ call = [fn |-> "removeAt", args |-> <<JsNum(1, 0)>>]
    /\ ret = JsBool(TRUE)
    /\ notes = << <<"a">>, <<"5">> >>

\* the entry holds the text of an object whose value is the integer v
HoldsCounter(entry, v) ==
    /\ entry.kind = "text"
    /\ entry.parsed.t = "object"
    /\ DOMAIN entry.parsed.fields = {"value"}
    /\ entry.parsed.fields.value = JsNum(v, 0)

\* the entry holds the text of an object whose notes are the strings of list
HoldsNotes(entry, list) ==
    /\ entry.kind = "text"
    /\ entry.parsed.t = "object"
    /\ DOMAIN entry.parsed.fields = {"notes"}
    /\ entry.parsed.fields.notes.t = "array"
    /\ Len(entry.parsed.fields.notes.items) = Len(list)
    /\ \A i \in 1..Len(list) :
          entry.parsed.fields.notes.items[i] = JsStr(list[i])

\* the handlers of the controller
Handlers == {"updateCounter", "addNote", "removeNote"}

\* C17 as stated: after each increment, decrement or reset the stored counter
\* entry holds the counter's value; after each accepted add or remove the
\* stored notes entry holds the note list; a rejected add or remove writes
\* nothing and leaves the list as it was.
C17_SavedAfterEveryMutation ==
    /\ [](call.fn = "updateCounter" => HoldsCounter(storage.counter, counterValue))
    /\ [](call.fn \in {"addNote", "removeNote"} /\ call.accepted =>
              HoldsNotes(storage.notes, notes))
    /\ [][call'.fn \in {"addNote", "removeNote"} /\ ~call'.accepted =>
              storage' = storage /\ notes' = notes]_vars

\* C17 amended: the same where localStorage takes the write; where it throws
\* the stored entries are as they were before the operation.
C17_SavedUnlessWriteThrows ==
    /\ [](call.fn = "updateCounter" /\ thrown = null =>
              HoldsCounter(storage.counter, counterValue))
    /\ [](call.fn \in {"addNote", "removeNote"} /\ call.accepted
              /\ thrown = null => HoldsNotes(storage.notes, notes))
    /\ [][/\ call'.fn \in {"addNote", "removeNote"} /\ ~call'.accepted =>
                storage' = storage /\ notes' = notes
          /\ call'.fn \in Handlers /\ thrown' # null => storage' = storage
         ]_vars

\* an accepted remove has left ["a"] in the model and in the stored entry
C17_Witness ==
    /\ call.fn = "removeNote"
    /\ call.accepted
    /\ thrown = null
    /\ notes = << <<"a">> >>
    /\ HoldsNotes(storage.notes, notes)

\* C18: when the write of a save throws, the rendered counter and the
\* rendered note list still equal the models after the operation.
C18_RenderedEqualsModel ==
    call.fn \in Handlers /\ thrown # null =>
        countText = ToString(counterValue) /\ noteList = notes

\* the counter a stored entry is to start: its value where the entry is the
\* text of an object with an integer value, 0 otherwise
ExpectedCounter(entry) ==
    IF /\ entry.kind = "text"
       /\ entry.parsed.t = "object"
       /\ "value" \in DOMAIN entry.parsed.fields
       /\ entry.parsed.fields.value.t = "number"
       /\ entry.parsed.fields.value.frac = 0
    THEN entry.parsed.fields.value.n
    ELSE 0

\* the array a stored entry is to start the notes from: its notes where the
\* entry is the text of an object with an array as notes, [] otherwise
ExpectedNotes(entry) ==
    IF /\ entry.kind = "text"
       /\ entry.parsed.t = "object"
       /\ "notes" \in DOMAIN entry.parsed.fields
       /\ entry.parsed.fields.notes.t = "array"
    THEN entry.parsed.fields.notes.items
    ELSE <<>>

\* the notes of list are the elements of items that are not blank, in their
\* order and made tidy: j counts the elements of items taken so far
RECURSIVE StartsFrom(_, _)
StartsFrom(list, items) ==
    IF items = <<>> THEN list = <<>>
    ELSE IF IsBlank(Head(items)) THEN StartsFrom(list, Tail(items))
    ELSE /\ list # <<>>
         /\ IsTidy(Head(list))
         /\ Head(items).t = "string" /\ IsTidy(Head(items).s) =>
               Head(list) = Head(items).s
         /\ StartsFrom(Tail(list), Tail(items))

\* C19: whatever the two stored entries are, bootstrap lets no error out, the
\* counter starts at the stored integer where the entry is well-formed and at
\* 0 otherwise, the notes start from the stored array where the entry is
\* well-formed and from [] otherwise, each whatever the other entry is, and
\* both are rendered.
C19_StartsFromStoredOrDefault ==
    call.fn = "bootstrap" =>
        /\ thrown = null
        /\ counterValue = ExpectedCounter(storage.counter)
        /\ StartsFrom(notes, ExpectedNotes(storage.notes))
        /\ countText = ToString(counterValue)
        /\ noteList = notes

=============================================================================
